---- MODULE Spec2Model ----
(***************************************************************************)
(* Model of custom_components/appliance_status: the ApplianceMonitor state *)
(* machine of coordinator.py (classifier, six-state lifecycle, the three   *)
(* timers, persistence and restore, observer notification).                *)
(*                                                                         *)
(* Time is discrete.  One tick is the resolution of the model: a delay     *)
(* given in minutes lasts TicksPerMinute ticks per minute, the debounce    *)
(* time is held in ticks.  An armed timer is the number of ticks left      *)
(* until it fires, None when the handle is None.  Time cannot pass an      *)
(* armed timer's deadline: the timer's callback runs first.                *)
(* Callbacks due at the same instant run in either order.                 *)
(*                                                                         *)
(* Specifications:                                                         *)
(*   Spec         the timed lifecycle of one monitor, new or restored,     *)
(*                from async_start to async_stop, up to MaxTime;           *)
(*   SpecLive     the lifecycle under readings >= the running threshold,   *)
(*                without an end of time, with fair timers;                *)
(*   SpecSettle   the lifecycle of a new monitor whose power entity stops   *)
(*                changing at MaxTime, with fair timers;                   *)
(*   SpecParams   the lifecycle with one parameter set through its number  *)
(*                entity;                                                  *)
(*   SpecRestore  save, edit of the stored file, restart and restore;      *)
(*   SpecResume   the lifecycle of a restored monitor over restarts;       *)
(*   SpecExample  the default parameters under 0 W, then 10 W, then 1 W;   *)
(*   SpecSave     the lifecycle of a new monitor with its save tasks, whose *)
(*                writes succeed or fail;                                  *)
(*   SpecExpiry   one call of a timer callback on a monitor in any state;   *)
(*   SpecTable    one classification from every state, band and pair of    *)
(*                thresholds.                                              *)
(***************************************************************************)
EXTENDS Integers, Sequences, FiniteSets, TLC

\* ---------------------------------------------------------------- const.py
STATE_OFF == "off"
STATE_STANDBY == "standby"
STATE_PENDING_RUNNING == "pending_running"
STATE_RUNNING == "running"
STATE_PENDING_COMPLETED == "pending_completed"
STATE_COMPLETED == "completed"

States ==
  {STATE_OFF, STATE_STANDBY, STATE_PENDING_RUNNING, STATE_RUNNING,
   STATE_PENDING_COMPLETED, STATE_COMPLETED}

DEFAULT_STANDBY_THRESHOLD == 2
DEFAULT_RUNNING_THRESHOLD == 8
DEFAULT_START_DELAY == 5
DEFAULT_FINISH_DELAY == 2
DEFAULT_DEBOUNCE_TIME == 20

\* ------------------------------------------------------------------ bounds
\* Ticks in one minute (the resolution of the clock).
TicksPerMinute == 3
\* The clock stops at MaxTime.
MaxTime == 10
\* Ticks in one calendar day.
DayLen == 6
\* The start delay, the finish delay (minutes) and the debounce time (ticks)
\* the number entities have set before the monitor starts.
StartDelayMin == 1
FinishDelayMin == 1
DebounceTicks == 2
\* Number of registered observer callbacks.
NumObservers == 2

\* None of Python, for the integer-valued fields.
None == -1

\* Readings of the power entity: a number of watts, or one of the values that
\* are not a number.
UNAVAILABLE == -1
UNKNOWN == -2
NON_NUMERIC == -3
NO_STATE == -4
Powers == {1, 5, 10}
Readings == Powers \cup {UNAVAILABLE, UNKNOWN, NON_NUMERIC, NO_STATE}

Min(a, b) == IF a < b THEN a ELSE b

\* dt_util.now().strftime("%Y-%m-%d"): the calendar day of instant t.
Today(t) == t \div DayLen

\* A number of seconds, in whole ticks.
Seconds(n) == (n * TicksPerMinute) \div 60

\* timedelta(minutes=m).total_seconds(), in ticks.
TotalSeconds(m) == m * TicksPerMinute

\* ------------------------------------------------------------ the monitor
\* ApplianceMonitor.__init__: the fields of a new monitor.  The thresholds,
\* delays and debounce time are the values the number entities set when they
\* are added, which happens before async_start.
NewMonitor(cbs, sd, fd, db) ==
  [ state |-> STATE_OFF,
    current_power |-> 0,
    last_state_change |-> None,
    last_started |-> None,
    last_completed |-> None,
    cycle_duration |-> None,
    cycles_today |-> 0,
    cycles_today_date |-> None,
    energy_at_start |-> None,
    cycle_energy |-> None,
    standby_threshold |-> DEFAULT_STANDBY_THRESHOLD,
    running_threshold |-> DEFAULT_RUNNING_THRESHOLD,
    start_delay |-> sd,
    finish_delay |-> fd,
    debounce_time |-> db,
    start_timer |-> None,
    finish_timer |-> None,
    debounce_timer |-> None,
    unsub_state_change |-> FALSE,
    update_callbacks |-> cbs,
    energy_entity |-> FALSE ]

\* Mutant: the getter returns the stored count whatever the day.
cycles_today_NoRollover(m, t) == [ m |-> m, value |-> m.cycles_today ]

\* The cycles_today property: the count is rolled over when it is read on a
\* day other than the stored one.  The monitor after the read, and the value
\* returned.
cycles_today(m, t) ==
  LET m1 == IF m.cycles_today_date # Today(t)
              THEN [m EXCEPT !.cycles_today = 0, !.cycles_today_date = Today(t)]
              ELSE m
  IN [ m |-> m1, value |-> m1.cycles_today ]

\* The parameter setters the number entities call.
set_standby_threshold(m, value) == [m EXCEPT !.standby_threshold = value]
set_running_threshold(m, value) == [m EXCEPT !.running_threshold = value]

\* Mutant: a new start delay re-arms the start timer that is running.
set_start_delay_Rearms(m, value) ==
  [m EXCEPT !.start_delay = value,
            !.start_timer = IF @ # None THEN TotalSeconds(value) ELSE None]

set_start_delay(m, value) == [m EXCEPT !.start_delay = value]
set_finish_delay(m, value) == [m EXCEPT !.finish_delay = value]
set_debounce_time(m, value) == [m EXCEPT !.debounce_time = value]

\* EXTERNAL_STATE_MAP.get(state, STATE_OFF)
EXTERNAL_STATE_MAP(s) ==
  CASE s = STATE_OFF -> STATE_OFF
    [] s = STATE_STANDBY -> STATE_STANDBY
    [] s = STATE_PENDING_RUNNING -> STATE_STANDBY
    [] s = STATE_RUNNING -> STATE_RUNNING
    [] s = STATE_PENDING_COMPLETED -> STATE_RUNNING
    [] s = STATE_COMPLETED -> STATE_COMPLETED
    [] OTHER -> STATE_OFF

\* The state property: the external state.
state(m) == EXTERNAL_STATE_MAP(m.state)

\* Mutant: is_running is true in RUNNING only.
is_running_OnlyRunning(m) == m.state = STATE_RUNNING

\* The is_running property.
is_running(m) == m.state \in {STATE_RUNNING, STATE_PENDING_COMPLETED}

\* ------------------------------------------------------------ timers
_cancel_start_timer(m) == [m EXCEPT !.start_timer = None]
_cancel_finish_timer(m) == [m EXCEPT !.finish_timer = None]
_cancel_debounce_timer(m) == [m EXCEPT !.debounce_timer = None]

\* Mutant: the pending state is entered and the start timer is not armed.
_start_pending_running_NoTimer(m) ==
  _cancel_start_timer([m EXCEPT !.state = STATE_PENDING_RUNNING])

_start_pending_running(m) ==
  [_cancel_start_timer([m EXCEPT !.state = STATE_PENDING_RUNNING])
     EXCEPT !.start_timer = TotalSeconds(m.start_delay)]

_start_pending_completed(m) ==
  [_cancel_finish_timer([m EXCEPT !.state = STATE_PENDING_COMPLETED])
     EXCEPT !.finish_timer = TotalSeconds(m.finish_delay)]

\* ------------------------------------------------------------ state machine
\* The band of a power value: the first part of _classify_power.
RawState(m, power) ==
  IF power < m.standby_threshold THEN STATE_OFF
  ELSE IF power < m.running_threshold THEN STATE_STANDBY
  ELSE STATE_RUNNING

\* Mutant: a reading in band running re-arms a pending start timer.
_transition_ReArms(m, raw_state) ==
  CASE m.state = STATE_OFF ->
         IF raw_state = STATE_STANDBY THEN [m EXCEPT !.state = STATE_STANDBY]
         ELSE IF raw_state = STATE_RUNNING THEN _start_pending_running(m)
         ELSE m
    [] m.state = STATE_STANDBY ->
         IF raw_state = STATE_OFF THEN [m EXCEPT !.state = STATE_OFF]
         ELSE IF raw_state = STATE_RUNNING THEN _start_pending_running(m)
         ELSE m
    [] m.state = STATE_PENDING_RUNNING ->
         IF raw_state = STATE_OFF
           THEN [_cancel_start_timer(m) EXCEPT !.state = STATE_OFF]
         ELSE IF raw_state = STATE_STANDBY
           THEN [_cancel_start_timer(m) EXCEPT !.state = STATE_STANDBY]
         ELSE _start_pending_running(m)
    [] m.state = STATE_RUNNING ->
         IF raw_state = STATE_OFF THEN _start_pending_completed(m)
         ELSE IF raw_state = STATE_STANDBY THEN _start_pending_completed(m)
         ELSE m
    [] m.state = STATE_PENDING_COMPLETED ->
         IF raw_state = STATE_RUNNING
           THEN [_cancel_finish_timer(m) EXCEPT !.state = STATE_RUNNING]
         ELSE m
    [] m.state = STATE_COMPLETED ->
         IF raw_state = STATE_OFF THEN [m EXCEPT !.state = STATE_OFF]
         ELSE IF raw_state = STATE_STANDBY THEN [m EXCEPT !.state = STATE_STANDBY]
         ELSE IF raw_state = STATE_RUNNING THEN _start_pending_running(m)
         ELSE m
    [] OTHER -> m

\* Mutant: a reading in band running takes STANDBY straight to RUNNING.
_transition_SkipsPending(m, raw_state) ==
  CASE m.state = STATE_OFF ->
         IF raw_state = STATE_STANDBY THEN [m EXCEPT !.state = STATE_STANDBY]
         ELSE IF raw_state = STATE_RUNNING THEN _start_pending_running(m)
         ELSE m
    [] m.state = STATE_STANDBY ->
         IF raw_state = STATE_OFF THEN [m EXCEPT !.state = STATE_OFF]
         ELSE IF raw_state = STATE_RUNNING
           THEN [m EXCEPT !.state = STATE_RUNNING]
         ELSE m
    [] m.state = STATE_PENDING_RUNNING ->
         IF raw_state = STATE_OFF
           THEN [_cancel_start_timer(m) EXCEPT !.state = STATE_OFF]
         ELSE IF raw_state = STATE_STANDBY
           THEN [_cancel_start_timer(m) EXCEPT !.state = STATE_STANDBY]
         ELSE m
    [] m.state = STATE_RUNNING ->
         IF raw_state = STATE_OFF THEN _start_pending_completed(m)
         ELSE IF raw_state = STATE_STANDBY THEN _start_pending_completed(m)
         ELSE m
    [] m.state = STATE_PENDING_COMPLETED ->
         IF raw_state = STATE_RUNNING
           THEN [_cancel_finish_timer(m) EXCEPT !.state = STATE_RUNNING]
         ELSE m
    [] m.state = STATE_COMPLETED ->
         IF raw_state = STATE_OFF THEN [m EXCEPT !.state = STATE_OFF]
         ELSE IF raw_state = STATE_STANDBY THEN [m EXCEPT !.state = STATE_STANDBY]
         ELSE IF raw_state = STATE_RUNNING THEN _start_pending_running(m)
         ELSE m
    [] OTHER -> m

\* Mutant: the return to RUNNING leaves the finish timer armed.
_transition_KeepsFinishTimer(m, raw_state) ==
  CASE m.state = STATE_OFF ->
         IF raw_state = STATE_STANDBY THEN [m EXCEPT !.state = STATE_STANDBY]
         ELSE IF raw_state = STATE_RUNNING THEN _start_pending_running(m)
         ELSE m
    [] m.state = STATE_STANDBY ->
         IF raw_state = STATE_OFF THEN [m EXCEPT !.state = STATE_OFF]
         ELSE IF raw_state = STATE_RUNNING THEN _start_pending_running(m)
         ELSE m
    [] m.state = STATE_PENDING_RUNNING ->
         IF raw_state = STATE_OFF
           THEN [_cancel_start_timer(m) EXCEPT !.state = STATE_OFF]
         ELSE IF raw_state = STATE_STANDBY
           THEN [_cancel_start_timer(m) EXCEPT !.state = STATE_STANDBY]
         ELSE m
    [] m.state = STATE_RUNNING ->
         IF raw_state = STATE_OFF THEN _start_pending_completed(m)
         ELSE IF raw_state = STATE_STANDBY THEN _start_pending_completed(m)
         ELSE m
    [] m.state = STATE_PENDING_COMPLETED ->
         IF raw_state = STATE_RUNNING
           THEN [m EXCEPT !.state = STATE_RUNNING]
         ELSE m
    [] m.state = STATE_COMPLETED ->
         IF raw_state = STATE_OFF THEN [m EXCEPT !.state = STATE_OFF]
         ELSE IF raw_state = STATE_STANDBY THEN [m EXCEPT !.state = STATE_STANDBY]
         ELSE IF raw_state = STATE_RUNNING THEN _start_pending_running(m)
         ELSE m
    [] OTHER -> m

\* _transition
_transition(m, raw_state) ==
  CASE m.state = STATE_OFF ->
         IF raw_state = STATE_STANDBY THEN [m EXCEPT !.state = STATE_STANDBY]
         ELSE IF raw_state = STATE_RUNNING THEN _start_pending_running(m)
         ELSE m
    [] m.state = STATE_STANDBY ->
         IF raw_state = STATE_OFF THEN [m EXCEPT !.state = STATE_OFF]
         ELSE IF raw_state = STATE_RUNNING THEN _start_pending_running(m)
         ELSE m
    [] m.state = STATE_PENDING_RUNNING ->
         IF raw_state = STATE_OFF
           THEN [_cancel_start_timer(m) EXCEPT !.state = STATE_OFF]
         ELSE IF raw_state = STATE_STANDBY
           THEN [_cancel_start_timer(m) EXCEPT !.state = STATE_STANDBY]
         ELSE m
    [] m.state = STATE_RUNNING ->
         IF raw_state = STATE_OFF THEN _start_pending_completed(m)
         ELSE IF raw_state = STATE_STANDBY THEN _start_pending_completed(m)
         ELSE m
    [] m.state = STATE_PENDING_COMPLETED ->
         IF raw_state = STATE_RUNNING
           THEN [_cancel_finish_timer(m) EXCEPT !.state = STATE_RUNNING]
         ELSE m
    [] m.state = STATE_COMPLETED ->
         IF raw_state = STATE_OFF THEN [m EXCEPT !.state = STATE_OFF]
         ELSE IF raw_state = STATE_STANDBY THEN [m EXCEPT !.state = STATE_STANDBY]
         ELSE IF raw_state = STATE_RUNNING THEN _start_pending_running(m)
         ELSE m
    [] OTHER -> m

\* ------------------------------------------------------------ effects
\* What one handler did besides changing the monitor: the observers it
\* invoked (in order), whether one of them raised, the save tasks it
\* created, the completion events it fired, the classifications it ran
\* and the power value it classified; burst is the number of accepted updates
\* a debounced classification stands for (history); value is what a read of
\* a property returned, the reading of a power update, or the energy a
\* confirming timer callback read (None: the reading was no number).
NoFx(op) ==
  [ op |-> op, notified |-> << >>, raised |-> FALSE, saves |-> 0,
    events |-> 0, classified |-> 0, power |-> None, burst |-> 0,
    value |-> None ]

\* _notify_update: the callbacks are invoked in order; k of them return
\* before one raises (k = Len: none raises).  A raising callback ends the
\* loop and the handler that called _notify_update.
_notify_update(m, k) ==
  LET n == Len(m.update_callbacks)
  IN [ notified |-> SubSeq(m.update_callbacks, 1, Min(k + 1, n)),
       raised |-> k < n ]

\* The tail of a handler that changed the state: notify, then create the
\* save task unless a callback raised.
NotifyAndSave(fx, m, k) ==
  LET nu == _notify_update(m, k)
  IN [fx EXCEPT !.notified = nu.notified,
                !.raised = nu.raised,
                !.saves = IF nu.raised THEN 0 ELSE 1]

_classify_power(m, power, t, k, op) ==
  LET m1 == _transition(m, RawState(m, power))
      fx == [NoFx(op) EXCEPT !.classified = 1, !.power = power]
  IN IF m1.state # m.state
       THEN [ m |-> [m1 EXCEPT !.last_state_change = t],
              fx |-> NotifyAndSave(fx, m1, k) ]
       ELSE [ m |-> m1, fx |-> fx ]

\* Mutant: the callback does not clear the handle of the timer that fired.
_start_timer_callback_KeepsHandle(m, t, e, k) ==
  IF m.state = STATE_PENDING_RUNNING
    THEN [ m |-> [m EXCEPT !.state = STATE_RUNNING,
                           !.last_started = t,
                           !.energy_at_start = e],
           fx |-> NotifyAndSave(NoFx("start_timer"), m, k) ]
    ELSE [ m |-> m, fx |-> NoFx("start_timer") ]

\* Mutant: the start timer confirms RUNNING whatever state it finds.
_start_timer_callback_Unguarded(m, t, e, k) ==
  LET m1 == [m EXCEPT !.start_timer = None]
  IN [ m |-> [m1 EXCEPT !.state = STATE_RUNNING,
                        !.last_started = t,
                        !.energy_at_start = e],
       fx |-> [NotifyAndSave(NoFx("start_timer"), m1, k)
                 EXCEPT !.value = e] ]

\* _start_timer_callback; e is what _read_energy_value returns.
_start_timer_callback(m, t, e, k) ==
  LET m1 == [m EXCEPT !.start_timer = None]
  IN IF m1.state = STATE_PENDING_RUNNING
       THEN [ m |-> [m1 EXCEPT !.state = STATE_RUNNING,
                               !.last_started = t,
                               !.energy_at_start = e],
              fx |-> [NotifyAndSave(NoFx("start_timer"), m1, k)
                        EXCEPT !.value = e] ]
       ELSE [ m |-> m1, fx |-> NoFx("start_timer") ]

\* round(x, 3) of an energy held in ten-thousandths of a kWh: the nearest
\* multiple of 10, a tie going to the even thousandth.
Round3(x) ==
  LET q == x \div 10
      r == x % 10
  IN IF r < 5 THEN 10 * q
     ELSE IF r > 5 THEN 10 * (q + 1)
     ELSE IF q % 2 = 0 THEN 10 * q ELSE 10 * (q + 1)

\* Mutant: the daily counter is incremented without the rollover.
_finish_timer_callback_NoRollover(m, t, e, k) ==
  LET m1 == [m EXCEPT !.finish_timer = None]
  IN IF m1.state = STATE_PENDING_COMPLETED
       THEN [ m |-> [m1 EXCEPT
                       !.state = STATE_COMPLETED,
                       !.last_completed = t,
                       !.cycle_duration =
                          IF m1.last_started # None THEN t - m1.last_started
                          ELSE m1.cycle_duration,
                       !.cycle_energy =
                          IF m1.energy_at_start # None /\ e # None
                            THEN Round3(e - m1.energy_at_start)
                            ELSE m1.cycle_energy,
                       !.energy_at_start = None,
                       !.cycles_today = m1.cycles_today + 1,
                       !.cycles_today_date = Today(t)],
              fx |-> [NotifyAndSave(NoFx("finish_timer"), m1, k)
                        EXCEPT !.events = 1, !.value = e] ]
       ELSE [ m |-> m1, fx |-> NoFx("finish_timer") ]

\* Mutant: the cycle is measured from the last change of state.
_finish_timer_callback_FromLastChange(m, t, e, k) ==
  LET m1 == [m EXCEPT !.finish_timer = None]
      today == Today(t)
      rolled == IF m1.cycles_today_date # today THEN 0 ELSE m1.cycles_today
  IN IF m1.state = STATE_PENDING_COMPLETED
       THEN [ m |-> [m1 EXCEPT
                       !.state = STATE_COMPLETED,
                       !.last_completed = t,
                       !.cycle_duration =
                          IF m1.last_state_change # None
                            THEN t - m1.last_state_change
                            ELSE m1.cycle_duration,
                       !.cycle_energy =
                          IF m1.energy_at_start # None /\ e # None
                            THEN Round3(e - m1.energy_at_start)
                            ELSE m1.cycle_energy,
                       !.energy_at_start = None,
                       !.cycles_today = rolled + 1,
                       !.cycles_today_date = today],
              fx |-> [NotifyAndSave(NoFx("finish_timer"), m1, k)
                        EXCEPT !.events = 1, !.value = e] ]
       ELSE [ m |-> m1, fx |-> NoFx("finish_timer") ]

\* Mutant: the completion leaves the energy baseline in place.
_finish_timer_callback_KeepsBaseline(m, t, e, k) ==
  LET m1 == [m EXCEPT !.finish_timer = None]
      today == Today(t)
      rolled == IF m1.cycles_today_date # today THEN 0 ELSE m1.cycles_today
  IN IF m1.state = STATE_PENDING_COMPLETED
       THEN [ m |-> [m1 EXCEPT
                       !.state = STATE_COMPLETED,
                       !.last_completed = t,
                       !.cycle_duration =
                          IF m1.last_started # None THEN t - m1.last_started
                          ELSE m1.cycle_duration,
                       !.cycle_energy =
                          IF m1.energy_at_start # None /\ e # None
                            THEN Round3(e - m1.energy_at_start)
                            ELSE m1.cycle_energy,
                       !.cycles_today = rolled + 1,
                       !.cycles_today_date = today],
              fx |-> [NotifyAndSave(NoFx("finish_timer"), m1, k)
                        EXCEPT !.events = 1, !.value = e] ]
       ELSE [ m |-> m1, fx |-> NoFx("finish_timer") ]

\* _finish_timer_callback; e is what _read_energy_value returns.
_finish_timer_callback(m, t, e, k) ==
  LET m1 == [m EXCEPT !.finish_timer = None]
      today == Today(t)
      rolled == IF m1.cycles_today_date # today THEN 0 ELSE m1.cycles_today
  IN IF m1.state = STATE_PENDING_COMPLETED
       THEN [ m |-> [m1 EXCEPT
                       !.state = STATE_COMPLETED,
                       !.last_completed = t,
                       !.cycle_duration =
                          IF m1.last_started # None THEN t - m1.last_started
                          ELSE m1.cycle_duration,
                       !.cycle_energy =
                          IF m1.energy_at_start # None /\ e # None
                            THEN Round3(e - m1.energy_at_start)
                            ELSE m1.cycle_energy,
                       !.energy_at_start = None,
                       !.cycles_today = rolled + 1,
                       !.cycles_today_date = today],
              fx |-> [NotifyAndSave(NoFx("finish_timer"), m1, k)
                        EXCEPT !.events = 1, !.value = e] ]
       ELSE [ m |-> m1, fx |-> NoFx("finish_timer") ]

\* Mutant: an update that finds the debounce timer armed leaves it running.
_async_power_state_changed_KeepsTimer(m, new_state) ==
  IF new_state \in {NO_STATE, UNAVAILABLE, UNKNOWN, NON_NUMERIC} THEN m
  ELSE IF m.debounce_timer # None THEN [m EXCEPT !.current_power = new_state]
  ELSE [m EXCEPT !.current_power = new_state,
                 !.debounce_timer = m.debounce_time]

\* Mutant: a reading that is unavailable counts as 0 W.
_async_power_state_changed_ZeroWhenUnavailable(m, new_state) ==
  IF new_state \in {NO_STATE, UNKNOWN, NON_NUMERIC} THEN m
  ELSE [m EXCEPT !.current_power = IF new_state = UNAVAILABLE THEN 0
                                   ELSE new_state,
                 !.debounce_timer = m.debounce_time]

\* _async_power_state_changed: new_state is the reading of the event.
_async_power_state_changed(m, new_state) ==
  IF new_state \in {NO_STATE, UNAVAILABLE, UNKNOWN} THEN m
  ELSE IF new_state = NON_NUMERIC THEN m
  ELSE [_cancel_debounce_timer([m EXCEPT !.current_power = new_state])
          EXCEPT !.debounce_timer = m.debounce_time]

\* Mutant: the debounce timer fires and nothing is classified.
_debounce_callback_Drops(m, t, k) ==
  [ m |-> [m EXCEPT !.debounce_timer = None], fx |-> NoFx("debounce") ]

\* _debounce_callback
_debounce_callback(m, t, k) ==
  LET m1 == [m EXCEPT !.debounce_timer = None]
  IN _classify_power(m1, m1.current_power, t, k, "debounce")

\* ------------------------------------------------------------ persistence
\* A JSON value of a timestamp key of the stored snapshot: null, the
\* isoformat() of instant v, or a corrupt value: a string that is no
\* datetime, a value that is no string (a number), an empty string.
Null == [tag |-> "null", v |-> 0]
Iso(t) == [tag |-> "iso", v |-> t]
BadString == [tag |-> "str", v |-> 0]
BadType == [tag |-> "num", v |-> 0]
EmptyString == [tag |-> "empty", v |-> 0]

\* datetime.isoformat(), None kept as null.
isoformat(t) == IF t # None THEN Iso(t) ELSE Null

\* bool(x) of a JSON value.
Truthy(x) == x.tag \in {"iso", "str", "num"}

\* dt_util.parse_datetime answers None for a string that is no datetime and
\* raises TypeError for a value that is no string.
parse_datetime(x) == IF x.tag = "iso" THEN x.v ELSE None
ParseRaises(x) == x.tag = "num"

\* A key the stored dict does not hold.
MISSING == -2

\* What Store.async_load gives: nothing stored, a dict, a value that is no
\* dict, or an exception.
NoSnapshot ==
  [ kind |-> "none", state |-> STATE_OFF, last_started |-> Null,
    last_completed |-> Null, cycle_duration |-> None, cycles_today |-> 0,
    cycles_today_date |-> None, cycle_energy |-> None,
    energy_at_start |-> None ]

\* The dict _async_save_state hands to Store.async_save.
SaveData(m) ==
  [ kind |-> "dict",
    state |-> m.state,
    last_started |-> isoformat(m.last_started),
    last_completed |-> isoformat(m.last_completed),
    cycle_duration |-> m.cycle_duration,
    cycles_today |-> m.cycles_today,
    cycles_today_date |-> m.cycles_today_date,
    cycle_energy |-> m.cycle_energy,
    energy_at_start |-> m.energy_at_start ]

\* Mutant: a failed write cancels the monitor's timers.
_async_save_state_StopsTimers(m, data, ok) ==
  [ m |-> IF ok THEN m
          ELSE [m EXCEPT !.start_timer = None, !.finish_timer = None,
                         !.debounce_timer = None],
    data |-> IF ok THEN SaveData(m) ELSE data ]

\* _async_save_state, run as a task: ok is whether Store.async_save
\* returns; data is what the store holds.
_async_save_state(m, data, ok) ==
  [ m |-> m, data |-> IF ok THEN SaveData(m) ELSE data ]

\* Mutant: a stored pending state is restored as itself.
RestoredState_KeepsPending(stored_state) ==
  IF stored_state \in States THEN stored_state ELSE STATE_OFF

\* The state branch of _async_restore_state.
RestoredState(stored_state) ==
  IF stored_state \in {STATE_RUNNING, STATE_PENDING_RUNNING} THEN STATE_RUNNING
  ELSE IF stored_state = STATE_PENDING_COMPLETED THEN STATE_RUNNING
  ELSE IF stored_state \in {STATE_COMPLETED, STATE_STANDBY, STATE_OFF}
    THEN stored_state
  ELSE STATE_OFF

\* _async_restore_state: the monitor after it, and whether it raised (only
\* the load is outside the try).  An exception inside the try ends the
\* restore where it is thrown and keeps what was assigned before it.
_async_restore_state(m, data) ==
  LET m1 == [m EXCEPT !.state = RestoredState(data.state)]
      m2 == IF Truthy(data.last_started)
              THEN [m1 EXCEPT !.last_started = parse_datetime(data.last_started)]
              ELSE m1
      m3 == IF Truthy(data.last_completed)
              THEN [m2 EXCEPT !.last_completed = parse_datetime(data.last_completed)]
              ELSE m2
      m4 == [m3 EXCEPT
               !.cycle_duration = data.cycle_duration,
               !.cycles_today =
                  IF data.cycles_today = MISSING THEN 0 ELSE data.cycles_today,
               !.cycles_today_date = data.cycles_today_date,
               !.cycle_energy = data.cycle_energy,
               !.energy_at_start = data.energy_at_start]
  IN CASE data.kind = "load_error" -> [m |-> m, raised |-> TRUE]
       [] data.kind = "none" -> [m |-> m, raised |-> FALSE]
       [] data.kind = "not_dict" -> [m |-> m, raised |-> FALSE]
       [] OTHER ->
            IF Truthy(data.last_started) /\ ParseRaises(data.last_started)
              THEN [m |-> m1, raised |-> FALSE]
            ELSE IF Truthy(data.last_completed) /\ ParseRaises(data.last_completed)
              THEN [m |-> m2, raised |-> FALSE]
            ELSE [m |-> m4, raised |-> FALSE]

\* Mutant: the seed is classified before the snapshot is restored.
async_start_ClassifiesFirst(m, data, cur, t, k) ==
  LET seed == cur \notin {NO_STATE, UNAVAILABLE, UNKNOWN, NON_NUMERIC}
      m0 == [m EXCEPT !.unsub_state_change = TRUE]
      c == IF seed
             THEN _classify_power([m0 EXCEPT !.current_power = cur], cur, t,
                                  k, "start")
             ELSE [ m |-> m0, fx |-> NoFx("start") ]
      r == _async_restore_state(c.m, data)
  IN IF r.raised
       THEN [ m |-> r.m, fx |-> [NoFx("start") EXCEPT !.raised = TRUE],
              rm |-> r.m, started |-> FALSE ]
       ELSE [ m |-> r.m, fx |-> c.fx, rm |-> r.m, started |-> TRUE ]

\* async_start: restore, subscribe, then classify the power entity's current
\* value at once.  cur is the state of the power entity.  When the load
\* raises, async_start ends there.
async_start(m, data, cur, t, k) ==
  LET r == _async_restore_state(m, data)
      m1 == [r.m EXCEPT !.unsub_state_change = TRUE]
      seed == cur \notin {NO_STATE, UNAVAILABLE, UNKNOWN, NON_NUMERIC}
      m2 == [m1 EXCEPT !.current_power = cur]
  IN IF r.raised
       THEN [ m |-> r.m, fx |-> [NoFx("start") EXCEPT !.raised = TRUE],
              rm |-> r.m, started |-> FALSE ]
     ELSE IF seed
       THEN [ m |-> _classify_power(m2, cur, t, k, "start").m,
              fx |-> _classify_power(m2, cur, t, k, "start").fx,
              rm |-> m1, started |-> TRUE ]
     ELSE [ m |-> m1, fx |-> NoFx("start"), rm |-> m1, started |-> TRUE ]

\* Mutant: stop leaves a pending debounce timer armed.
async_stop_KeepsDebounce(m) ==
  _cancel_finish_timer(_cancel_start_timer(
    [m EXCEPT !.unsub_state_change = FALSE]))

\* async_stop
async_stop(m) ==
  _cancel_debounce_timer(_cancel_finish_timer(_cancel_start_timer(
    [m EXCEPT !.unsub_state_change = FALSE])))

\* ------------------------------------------------------------ environment
\* The cumulative reading of the energy entity at instant t, in
\* ten-thousandths of a kWh, when it has a numeric state.
EnergyPerTick == 4
EnergyAt(t) == EnergyPerTick * t

\* _read_energy_value: reading is the state of the energy entity.
_read_energy_value(m, reading) ==
  IF ~m.energy_entity THEN None
  ELSE IF reading \in {NO_STATE, UNAVAILABLE, UNKNOWN} THEN None
  ELSE IF reading = NON_NUMERIC THEN None
  ELSE reading

\* The states the energy entity may have at instant t.
EnergyStates(t) == {EnergyAt(t), UNAVAILABLE}

Observers == [i \in 1..NumObservers |-> i]

VARIABLES
  mon,          \* the ApplianceMonitor object
  now,          \* dt_util.now()
  store,        \* what Store.async_load would give
  phase,        \* "created", "started", "failed" (async_start raised), "stopped"
  fx,           \* what the last handler did (see NoFx)
  acc,          \* the latest accepted power update (history)
  events_fired, \* completion events fired so far (history)
  restored,     \* the monitor as _async_restore_state left it (history)
  saved         \* the monitor whose fields the store holds (history)

vars == <<mon, now, store, phase, fx, acc, events_fired, restored, saved>>

\* History of the accepted power updates.
\*   age, debounce, power, n: while a classification is due, the ticks since
\*     the latest accepted update, the debounce time it armed, its value, and
\*     how many updates (3: three or more) were accepted since the last
\*     classification;
\*   pc_high: the latest update is >= the running threshold and arrived in
\*     PENDING_COMPLETED before the finish timer was due;
\*   high_age: None when the latest accepted reading is below the running
\*     threshold, else the ticks since the first reading of the unbroken run
\*     of readings >= the running threshold (HighCap: that many or more);
\*   high_from: the state that run of readings found;
\*   spike: the latest accepted reading is below the running threshold, and
\*     the run of readings >= the threshold before it found the state OFF and
\*     lasted less than the start delay;
\*   confirmed: the instant the start timer confirmed RUNNING for the cycle
\*     under way, in this run of the integration or in an earlier one, None
\*     when no confirmed cycle is under way.
HighCap(m) == TotalSeconds(m.start_delay) + m.debounce_time + 1

NoAcc ==
  [ age |-> None, debounce |-> None, power |-> None, n |-> 0,
    pc_high |-> FALSE, high_age |-> None, high_from |-> STATE_OFF,
    spike |-> FALSE, confirmed |-> None ]

Accept(m, a, p) ==
  LET high == p >= m.running_threshold
  IN [ age |-> 0,
       debounce |-> m.debounce_time,
       power |-> p,
       n |-> IF a.age # None THEN Min(a.n + 1, 3) ELSE 1,
       pc_high |-> high /\ m.state = STATE_PENDING_COMPLETED
                        /\ m.finish_timer > 0,
       high_age |-> IF ~high THEN None
                    ELSE IF a.high_age # None THEN a.high_age ELSE 0,
       high_from |-> IF ~high THEN STATE_OFF
                     ELSE IF a.high_age = None THEN m.state ELSE a.high_from,
       spike |-> /\ ~high
                 /\ \/ a.spike
                    \/ /\ a.high_age # None
                       /\ a.high_age < TotalSeconds(m.start_delay)
                       /\ a.high_from = STATE_OFF,
       confirmed |-> a.confirmed ]

\* The classification that was due has run, or was cancelled by async_stop.
Classified(a) ==
  [a EXCEPT !.age = None, !.debounce = None, !.power = None, !.n = 0,
            !.pc_high = FALSE]

\* One tick passes.
Aged(m, a) ==
  [a EXCEPT !.age = IF @ # None THEN @ + 1 ELSE None,
            !.high_age = IF @ # None THEN Min(@ + 1, HighCap(m)) ELSE None]

\* The start timer confirmed RUNNING at instant t.
Confirmed(a, t) == [a EXCEPT !.confirmed = t]

\* The finish timer confirmed the completion of the cycle.
Completed(a) == [a EXCEPT !.confirmed = None]

\* The cycle a monitor written by the start timer is in.
ConfirmedOf(m) ==
  IF m.state \in {STATE_RUNNING, STATE_PENDING_COMPLETED}
    THEN m.last_started ELSE None

InitMonitor ==
  NewMonitor(Observers, StartDelayMin, FinishDelayMin, DebounceTicks)

\* A monitor of an earlier run of the integration, as it was when its last
\* save task ran: in its second cycle of day 0, with an energy entity.
EarlierMonitor ==
  [InitMonitor EXCEPT
     !.state = STATE_RUNNING, !.last_state_change = 0, !.last_started = 0,
     !.last_completed = 0, !.cycle_duration = 0, !.cycles_today = 1,
     !.cycles_today_date = 0, !.energy_at_start = 0, !.cycle_energy = 0,
     !.energy_entity = TRUE]

\* The monitor is new.  Either nothing is stored and the integration runs
\* for the first time, with or without an energy entity, or the store holds
\* what the earlier run saved.
Init ==
  /\ \/ /\ store = NoSnapshot
        /\ saved = InitMonitor
        /\ \E ee \in BOOLEAN : mon = [InitMonitor EXCEPT !.energy_entity = ee]
     \/ /\ store = SaveData(EarlierMonitor)
        /\ saved = EarlierMonitor
        /\ mon = [InitMonitor EXCEPT !.energy_entity = TRUE]
  /\ now = 0
  /\ phase = "created"
  /\ fx = NoFx("init")
  /\ acc = [NoAcc EXCEPT !.confirmed = ConfirmedOf(saved)]
  /\ events_fired = 0
  /\ restored = InitMonitor

\* ------------------------------------------------------------ actions
\* async_setup_entry calls async_start on the new monitor.
AsyncStart ==
  /\ phase = "created"
  /\ \E cur \in Readings, k \in 0..NumObservers :
       LET r == async_start(mon, store, cur, now, k)
       IN /\ mon' = r.m
          /\ fx' = r.fx
          /\ restored' = r.rm
          /\ acc' = IF r.fx.classified = 1
                      THEN Classified(Accept(r.rm, acc, cur)) ELSE acc
          /\ phase' = IF r.started THEN "started" ELSE "failed"
  /\ UNCHANGED <<now, store, events_fired, saved>>

\* The power entity changes state: the subscription delivers the event.
PowerUpdateOf(R) ==
  /\ mon.unsub_state_change
  /\ \E r \in R :
       /\ mon' = _async_power_state_changed(mon, r)
       /\ acc' = IF r \in Powers THEN Accept(mon, acc, r) ELSE acc
       /\ fx' = [NoFx("power") EXCEPT !.value = IF r \in Powers THEN r ELSE None]
  /\ UNCHANGED <<now, store, phase, events_fired, restored, saved>>

PowerUpdate == PowerUpdateOf(Readings)

\* The debounce timer fires.
DebounceFire ==
  /\ mon.debounce_timer = 0
  /\ \E k \in 0..NumObservers :
       LET r == _debounce_callback(mon, now, k)
       IN /\ mon' = r.m
          /\ fx' = [r.fx EXCEPT !.burst = acc.n]
  /\ acc' = Classified(acc)
  /\ UNCHANGED <<now, store, phase, events_fired, restored, saved>>

\* The start timer fires.
StartTimerFire ==
  /\ mon.start_timer = 0
  /\ \E e \in EnergyStates(now), k \in 0..NumObservers :
       LET r == _start_timer_callback(mon, now, _read_energy_value(mon, e), k)
       IN /\ mon' = r.m
          /\ fx' = r.fx
          /\ acc' = IF r.m.state = STATE_RUNNING /\ mon.state # STATE_RUNNING
                      THEN Confirmed(acc, now) ELSE acc
  /\ UNCHANGED <<now, store, phase, events_fired, restored, saved>>

\* The finish timer fires.
FinishTimerFire ==
  /\ mon.finish_timer = 0
  /\ \E e \in EnergyStates(now), k \in 0..NumObservers :
       LET r == _finish_timer_callback(mon, now, _read_energy_value(mon, e), k)
       IN /\ mon' = r.m
          /\ fx' = r.fx
          /\ events_fired' = events_fired + r.fx.events
          /\ acc' = IF r.m.state = STATE_COMPLETED /\ mon.state # STATE_COMPLETED
                      THEN Completed(acc) ELSE acc
  /\ UNCHANGED <<now, store, phase, restored, saved>>

\* One tick passes: no armed timer is due.
Elapse(m) ==
  [m EXCEPT
     !.start_timer = IF @ # None THEN @ - 1 ELSE None,
     !.finish_timer = IF @ # None THEN @ - 1 ELSE None,
     !.debounce_timer = IF @ # None THEN @ - 1 ELSE None]

Tick ==
  /\ now < MaxTime
  /\ mon.start_timer # 0 /\ mon.finish_timer # 0 /\ mon.debounce_timer # 0
  /\ now' = now + 1
  /\ mon' = Elapse(mon)
  /\ fx' = NoFx("tick")
  /\ acc' = Aged(mon, acc)
  /\ UNCHANGED <<store, phase, events_fired, restored, saved>>

\* A sensor entity reads the cycles_today property (when it is added, which
\* is before async_start, and whenever it writes its state).
ReadCyclesToday ==
  /\ mon' = cycles_today(mon, now).m
  /\ fx' = [NoFx("cycles_today") EXCEPT !.value = cycles_today(mon, now).value]
  /\ UNCHANGED <<now, store, phase, acc, events_fired, restored, saved>>

\* The save task the last handler created runs: _async_save_state hands the
\* fields to Store.async_save, which stores them.
SaveWrite ==
  /\ fx.saves = 1
  /\ store' = _async_save_state(mon, store, TRUE).data
  /\ saved' = mon
  /\ fx' = NoFx("save")
  /\ mon' = _async_save_state(mon, store, TRUE).m
  /\ UNCHANGED <<now, phase, acc, events_fired, restored>>

\* The save task runs and Store.async_save raises: the exception ends the
\* task, nothing is stored.
SaveFail ==
  /\ fx.saves = 1
  /\ store' = _async_save_state(mon, store, FALSE).data
  /\ mon' = _async_save_state(mon, store, FALSE).m
  /\ fx' = NoFx("save_failed")
  /\ UNCHANGED <<now, phase, acc, events_fired, restored, saved>>

\* async_unload_entry calls async_stop.
AsyncStop ==
  /\ phase \in {"started", "stopped"}
  /\ mon' = async_stop(mon)
  /\ phase' = "stopped"
  /\ fx' = NoFx("stop")
  /\ acc' = Classified(acc)
  /\ UNCHANGED <<now, store, events_fired, restored, saved>>

Next ==
  \/ AsyncStart
  \/ PowerUpdate
  \/ DebounceFire
  \/ StartTimerFire
  \/ FinishTimerFire
  \/ Tick
  \/ ReadCyclesToday
  \/ AsyncStop

Spec == Init /\ [][Next]_vars

\* ------------------------------------------------------------ SpecLive
\* A new monitor whose power entity, once started, reports only readings
\* >= the running threshold (and states that are no reading), without an
\* end of time: the instants from MaxTime on are read as MaxTime, the timers
\* count on.  The event loop runs a due callback and time passes (weak
\* fairness); the power entity may change state at any time and is under no
\* obligation.  No finish timer is armed under these readings.
TickLive ==
  /\ mon.start_timer # 0 /\ mon.finish_timer # 0 /\ mon.debounce_timer # 0
  /\ now' = Min(now + 1, MaxTime)
  /\ mon' = Elapse(mon)
  /\ fx' = NoFx("tick")
  /\ acc' = Aged(mon, acc)
  /\ UNCHANGED <<store, phase, events_fired, restored, saved>>

PowerUpdateHigh ==
  PowerUpdateOf({r \in Readings :
                   r \in Powers => r >= DEFAULT_RUNNING_THRESHOLD})

InitLive ==
  /\ Init
  /\ store = NoSnapshot

NextLive ==
  \/ AsyncStart
  \/ PowerUpdateHigh
  \/ DebounceFire
  \/ StartTimerFire
  \/ TickLive

SpecLive ==
  /\ InitLive
  /\ [][NextLive]_vars
  /\ WF_vars(DebounceFire)
  /\ WF_vars(StartTimerFire)
  /\ WF_vars(TickLive)

\* ---------------------------------------------------------- SpecParams
\* The lifecycle of a new monitor whose parameters the number entities
\* change while it runs: one parameter is set, once, to a value other than
\* the one the monitor started with.
StandbyValues == {DEFAULT_STANDBY_THRESHOLD + 4}
RunningValues == {DEFAULT_RUNNING_THRESHOLD - 4}
StartDelayValues == {StartDelayMin + 1}
FinishDelayValues == {FinishDelayMin + 1}
DebounceValues == {DebounceTicks - 1}

Parameters(m) ==
  [ standby_threshold |-> m.standby_threshold,
    running_threshold |-> m.running_threshold,
    start_delay |-> m.start_delay,
    finish_delay |-> m.finish_delay,
    debounce_time |-> m.debounce_time ]

\* No parameter has been changed yet.
AsStarted == Parameters(mon) = Parameters(InitMonitor)

SetEffects(op, value) ==
  /\ fx' = [NoFx(op) EXCEPT !.value = value]
  /\ UNCHANGED <<now, store, phase, acc, events_fired, restored, saved>>

SetStandbyThreshold ==
  /\ AsStarted
  /\ \E v \in StandbyValues :
       /\ mon' = set_standby_threshold(mon, v)
       /\ SetEffects("set_standby_threshold", v)

SetRunningThreshold ==
  /\ AsStarted
  /\ \E v \in RunningValues :
       /\ mon' = set_running_threshold(mon, v)
       /\ SetEffects("set_running_threshold", v)

SetStartDelay ==
  /\ AsStarted
  /\ \E v \in StartDelayValues :
       /\ mon' = set_start_delay(mon, v)
       /\ SetEffects("set_start_delay", v)

SetFinishDelay ==
  /\ AsStarted
  /\ \E v \in FinishDelayValues :
       /\ mon' = set_finish_delay(mon, v)
       /\ SetEffects("set_finish_delay", v)

SetDebounceTime ==
  /\ AsStarted
  /\ \E v \in DebounceValues :
       /\ mon' = set_debounce_time(mon, v)
       /\ SetEffects("set_debounce_time", v)

InitParams ==
  /\ Init
  /\ store = NoSnapshot
  /\ ~mon.energy_entity

NextParams ==
  \/ AsyncStart
  \/ PowerUpdate
  \/ DebounceFire
  \/ StartTimerFire
  \/ FinishTimerFire
  \/ Tick
  \/ SetStandbyThreshold
  \/ SetRunningThreshold
  \/ SetStartDelay
  \/ SetFinishDelay
  \/ SetDebounceTime

SpecParams == InitParams /\ [][NextParams]_vars

\* --------------------------------------------------------- SpecRestore
\* Save, restart, restore.  The monitor is one of an earlier run of a new
\* monitor through one cycle, as the handlers leave it: new; the first
\* reading of 10 classified (PENDING_RUNNING); the start timer fired
\* (RUNNING); a reading of 1 classified (PENDING_COMPLETED); the finish timer
\* fired (COMPLETED); a reading of 5 classified (STANDBY).
EarlierRun(ee) ==
  LET K == NumObservers
      w0 == [InitMonitor EXCEPT !.energy_entity = ee,
                                !.unsub_state_change = TRUE]
      r1 == _classify_power([w0 EXCEPT !.current_power = 10], 10, 0, K,
                            "debounce")
      t2 == TotalSeconds(r1.m.start_delay)
      r2 == _start_timer_callback(r1.m, t2,
                                  _read_energy_value(r1.m, EnergyAt(t2)), K)
      t3 == t2 + 1
      r3 == _classify_power([r2.m EXCEPT !.current_power = 1], 1, t3, K,
                            "debounce")
      t4 == t3 + TotalSeconds(r3.m.finish_delay)
      r4 == _finish_timer_callback(r3.m, t4,
                                   _read_energy_value(r3.m, EnergyAt(t4)), K)
      t5 == t4 + 1
      r5 == _classify_power([r4.m EXCEPT !.current_power = 5], 5, t5, K,
                            "debounce")
  IN << [m |-> w0, fx |-> NoFx("init"), t |-> 0],
        [m |-> r1.m, fx |-> r1.fx, t |-> 0],
        [m |-> r2.m, fx |-> r2.fx, t |-> t2],
        [m |-> r3.m, fx |-> r3.fx, t |-> t3],
        [m |-> r4.m, fx |-> r4.fx, t |-> t4],
        [m |-> r5.m, fx |-> r5.fx, t |-> t5] >>

InitRestore ==
  /\ \E ee \in BOOLEAN, i \in 1..6 :
       /\ mon = EarlierRun(ee)[i].m
       /\ fx = EarlierRun(ee)[i].fx
       /\ now = EarlierRun(ee)[i].t
  /\ store = NoSnapshot
  /\ saved = InitMonitor
  /\ phase = "started"
  /\ acc = [NoAcc EXCEPT !.confirmed = ConfirmedOf(mon)]
  /\ events_fired = 0
  /\ restored = InitMonitor

\* A state string no version of the program writes.
OtherState == "other"

\* What may happen to the stored file the program wrote: a value is replaced
\* or a key is lost, the file holds no dict any more, or loading it raises.
Edits(data) ==
  { [data EXCEPT !.state = OtherState],
    [data EXCEPT !.last_started = BadString],
    [data EXCEPT !.last_started = BadType],
    [data EXCEPT !.last_started = EmptyString],
    [data EXCEPT !.last_completed = BadType],
    [data EXCEPT !.cycles_today = MISSING],
    [data EXCEPT !.kind = "not_dict"],
    [data EXCEPT !.kind = "load_error"] }

Edit ==
  /\ phase = "started"
  /\ store = SaveData(saved)
  /\ store' \in Edits(store)
  /\ fx' = NoFx("edit")
  /\ UNCHANGED <<mon, now, phase, acc, events_fired, restored, saved>>

\* Home Assistant restarts, or the entry is reloaded: async_setup_entry
\* constructs a new monitor with the same configuration.
Restart ==
  /\ phase \in {"started", "failed"}
  /\ mon' = [NewMonitor(Observers, mon.start_delay, mon.finish_delay,
                        mon.debounce_time)
               EXCEPT !.energy_entity = mon.energy_entity]
  /\ phase' = "created"
  /\ fx' = NoFx("init")
  /\ acc' = [NoAcc EXCEPT !.confirmed = acc.confirmed]
  /\ UNCHANGED <<now, store, events_fired, restored, saved>>

NextRestore ==
  \/ SaveWrite
  \/ Edit
  \/ Restart
  \/ AsyncStart

SpecRestore == InitRestore /\ [][NextRestore]_vars

\* ------------------------------------------------------------ SpecTable
\* One classification from every internal state, with the thresholds the
\* number entities allow: their order is not enforced (standby 0..50,
\* running 1..500), so the running threshold may lie below the standby one.
Thresholds == {1, 5, 10}

InitTable ==
  /\ \E st \in States, sb \in Thresholds, rt \in Thresholds, p \in Powers,
        left \in 1..2 :
       mon = [InitMonitor EXCEPT
                !.state = st,
                !.standby_threshold = sb,
                !.running_threshold = rt,
                !.current_power = p,
                !.unsub_state_change = TRUE,
                !.start_timer =
                   IF st = STATE_PENDING_RUNNING THEN left ELSE None,
                !.finish_timer =
                   IF st = STATE_PENDING_COMPLETED THEN left ELSE None,
                !.debounce_timer = 0]
  /\ now = 0
  /\ store = NoSnapshot
  /\ saved = InitMonitor
  /\ phase = "started"
  /\ fx = NoFx("power")
  /\ acc = NoAcc
  /\ events_fired = 0
  /\ restored = InitMonitor

SpecTable == InitTable /\ [][DebounceFire]_vars

\* ================================================================ claims

\* ---------------------------------------------------------------- C1
\* C1: while the latest accepted readings are below the running threshold
\* after a run of readings >= the threshold that found the state OFF and
\* lasted less than the start delay (acc.spike), and the classification of
\* the latest reading is due later than now, no step makes the state RUNNING;
\* and the classification of such a reading in OFF, STANDBY or
\* PENDING_RUNNING cancels the start timer and leaves the band of the
\* reading: OFF below the standby threshold, else STANDBY.
C1_SpikeRejected ==
  [][ acc.spike =>
        /\ ( mon.debounce_timer > 0 /\ mon.state # STATE_RUNNING
              => mon'.state # STATE_RUNNING )
        /\ ( /\ fx'.op = "debounce"
             /\ mon.state \in {STATE_OFF, STATE_STANDBY, STATE_PENDING_RUNNING}
             => /\ mon'.start_timer = None
                /\ mon'.state = IF mon.current_power < mon.standby_threshold
                                  THEN STATE_OFF ELSE STATE_STANDBY )
    ]_vars

\* ---------------------------------------------------------------- C2
\* C2: when a reading >= the running threshold has been accepted in
\* PENDING_COMPLETED before the finish timer was due, and is still the
\* latest reading (acc.pc_high), then while its classification is due later
\* than now no step completes the cycle (no COMPLETED, no change of
\* cycles_today but by a read of it, no completion event), and its
\* classification in
\* PENDING_COMPLETED cancels the finish timer and returns to RUNNING.
C2_CancelledCompletion ==
  [][ acc.pc_high =>
        /\ ( mon.debounce_timer > 0
              => /\ mon'.state # STATE_COMPLETED
                 /\ fx'.op = "cycles_today"
                      \/ mon'.cycles_today = mon.cycles_today
                 /\ fx'.events = 0 )
        /\ ( fx'.op = "debounce" /\ mon.state = STATE_PENDING_COMPLETED
              => /\ mon'.state = STATE_RUNNING
                 /\ mon'.finish_timer = None
                 /\ mon'.cycles_today = mon.cycles_today
                 /\ fx'.events = 0 )
    ]_vars

\* ---------------------------------------------------------------- C3
\* C3: if from some instant on every accepted reading is >= the running
\* threshold, the machine eventually is RUNNING with last_started set.
C3_ConfirmedStart ==
  (phase = "started" /\ acc.high_age # None)
    ~> ( \/ mon.state = STATE_RUNNING /\ mon.last_started # None
         \/ acc.high_age = None )

C5_DebounceCoalescing ==
  [][ /\ ( fx'.op = "power" /\ acc'.age = 0
           => /\ mon'.current_power = acc'.power
              /\ mon'.debounce_timer = acc'.debounce
              /\ fx'.classified = 0 )
      /\ ( fx'.op = "debounce"
           => /\ fx'.classified = 1
              /\ acc.age = acc.debounce
              /\ fx'.power = acc.power
              /\ fx'.burst >= 1
              /\ mon'.debounce_timer = None
              /\ acc'.age = None )
      /\ ( fx'.op = "tick" => fx'.classified = 0 )
      /\ ( mon'.unsub_state_change
           => (mon'.debounce_timer # None <=> acc'.age # None) )
    ]_vars

\* C5 witness: one classification stood for a burst of three or more updates.
C5_Witness ==
  /\ fx.op = "debounce"
  /\ fx.classified = 1
  /\ fx.burst = 3

\* ---------------------------------------------------------------- C6
\* The bands as the claim reads them: three independent conditions.
InBand(m, p, b) ==
  CASE b = "off" -> p < m.standby_threshold
    [] b = "standby" -> m.standby_threshold <= p /\ p < m.running_threshold
    [] b = "running" -> p >= m.running_threshold

\* The bands decided in order: off first, then standby, then running.
BandOf(m, p) ==
  IF p < m.standby_threshold THEN "off"
  ELSE IF p < m.running_threshold THEN "standby"
  ELSE "running"

\* The table of the specification: the next state, and what happens to the
\* start and the finish timer ("arm", "cancel", "keep").
Table(st, b) ==
  CASE st \in {STATE_OFF, STATE_STANDBY, STATE_COMPLETED} ->
         IF b = "off" THEN [state |-> STATE_OFF, start |-> "keep", finish |-> "keep"]
         ELSE IF b = "standby"
           THEN [state |-> STATE_STANDBY, start |-> "keep", finish |-> "keep"]
         ELSE [state |-> STATE_PENDING_RUNNING, start |-> "arm", finish |-> "keep"]
    [] st = STATE_PENDING_RUNNING ->
         IF b = "off" THEN [state |-> STATE_OFF, start |-> "cancel", finish |-> "keep"]
         ELSE IF b = "standby"
           THEN [state |-> STATE_STANDBY, start |-> "cancel", finish |-> "keep"]
         ELSE [state |-> STATE_PENDING_RUNNING, start |-> "keep", finish |-> "keep"]
    [] st = STATE_RUNNING ->
         IF b \in {"off", "standby"}
           THEN [state |-> STATE_PENDING_COMPLETED, start |-> "keep", finish |-> "arm"]
         ELSE [state |-> STATE_RUNNING, start |-> "keep", finish |-> "keep"]
    [] st = STATE_PENDING_COMPLETED ->
         IF b \in {"off", "standby"}
           THEN [state |-> STATE_PENDING_COMPLETED, start |-> "keep", finish |-> "keep"]
         ELSE [state |-> STATE_RUNNING, start |-> "keep", finish |-> "cancel"]

TimerAfter(act, before, after, delay) ==
  CASE act = "arm" -> after = TotalSeconds(delay)
    [] act = "cancel" -> after = None
    [] act = "keep" -> after = before

StepFollowsTable(b) ==
  LET row == Table(mon.state, b)
  IN /\ mon'.state = row.state
     /\ TimerAfter(row.start, mon.start_timer, mon'.start_timer, mon.start_delay)
     /\ TimerAfter(row.finish, mon.finish_timer, mon'.finish_timer, mon.finish_delay)

\* C6 as stated: for every band the power value lies in, the classification
\* follows the table's row for that band.
C6_TableEveryBand ==
  [][ fx'.classified = 1
      => \A b \in {"off", "standby", "running"} :
           InBand(mon, fx'.power, b) => StepFollowsTable(b) ]_vars

\* C6 amended: the band is decided in order (off when power < standby
\* threshold, else standby when power < running threshold, else running),
\* and the classification follows the table's row for that band.
C6_TableOrderedBands ==
  [][ fx'.classified = 1 => StepFollowsTable(BandOf(mon, fx'.power)) ]_vars

\* C6 witness: a classification in band running has armed the start timer.
C6_Witness ==
  /\ fx.classified = 1
  /\ fx.power >= mon.running_threshold
  /\ fx.power >= mon.standby_threshold
  /\ mon.state = STATE_PENDING_RUNNING
  /\ mon.start_timer = TotalSeconds(mon.start_delay)
  /\ fx.saves = 1

\* ---------------------------------------------------------------- C7
\* C7: the start timer and the finish timer are never both armed.
C7_OneConfirmTimer ==
  ~(mon.start_timer # None /\ mon.finish_timer # None)

\* C7 witness: the debounce timer is armed together with the finish timer.
C7_Witness ==
  /\ mon.debounce_timer # None
  /\ mon.finish_timer # None
  /\ mon.state = STATE_PENDING_COMPLETED

\* ---------------------------------------------------------------- C8
\* C8: after a start, the monitor as the restore left it is: with no
\* snapshot, OFF with every derived field at its default; with a snapshot, in
\* the state the policy gives for the stored state (RUNNING for RUNNING,
\* PENDING_RUNNING and PENDING_COMPLETED; COMPLETED, STANDBY, OFF as
\* themselves; OFF for anything else), and, when the snapshot is what the
\* program saved, with every other snapshot field equal to the field of the
\* monitor that was saved.
C8_RestoredAs(s) ==
  CASE s \in {STATE_RUNNING, STATE_PENDING_RUNNING, STATE_PENDING_COMPLETED}
         -> STATE_RUNNING
    [] s \in {STATE_COMPLETED, STATE_STANDBY, STATE_OFF} -> s
    [] OTHER -> STATE_OFF

C8_Fields(m) ==
  << m.last_started, m.last_completed, m.cycle_duration, m.cycle_energy,
     m.cycles_today, m.cycles_today_date, m.energy_at_start >>

\* A snapshot is corrupt when it is no dict, cannot be loaded, or holds for
\* a timestamp something that is neither null nor a timestamp.
CorruptSnapshot(data) ==
  \/ data.kind \in {"not_dict", "load_error"}
  \/ /\ data.kind = "dict"
     /\ \/ data.last_started.tag \notin {"null", "iso"}
        \/ data.last_completed.tag \notin {"null", "iso"}

C8_RestorePolicy ==
  phase = "started" /\ fx.op = "start" =>
    /\ store.kind = "none"
         => /\ restored.state = STATE_OFF
            /\ C8_Fields(restored) = <<None, None, None, None, 0, None, None>>
    /\ store.kind = "dict" /\ ~CorruptSnapshot(store)
         => restored.state = C8_RestoredAs(store.state)
    /\ store = SaveData(saved)
         => C8_Fields(restored) = C8_Fields(saved)

\* A snapshot saved in PENDING_COMPLETED, with a cycle start and an energy
\* baseline, has been restored as RUNNING.
C8_Witness ==
  /\ phase = "started" /\ fx.op = "start"
  /\ store = SaveData(saved)
  /\ saved.state = STATE_PENDING_COMPLETED
  /\ restored.state = STATE_RUNNING
  /\ restored.last_started = saved.last_started
  /\ saved.last_started # None
  /\ saved.energy_at_start # None

\* ---------------------------------------------------------------- C9
\* C9: after async_start has run on a corrupt snapshot, the start has not
\* failed, the monitor is subscribed, and the restore left it OFF with every
\* derived field at its default.
C9_RestoreFailure ==
  phase \in {"started", "failed"} /\ fx.op = "start" /\ CorruptSnapshot(store)
    => /\ phase = "started"
       /\ mon.unsub_state_change
       /\ restored.state = STATE_OFF
       /\ C8_Fields(restored) = <<None, None, None, None, 0, None, None>>

\* ---------------------------------------------------------------- C10
\* C10: every step of a debounced classification, of the start timer or of
\* the finish timer that changes the state (and in which no observer
\* raises) sets last_state_change to now, invokes every registered observer
\* and creates one save task.
C10_EveryChangeStamped ==
  [][ /\ mon'.state # mon.state
      /\ fx'.op \in {"debounce", "start_timer", "finish_timer"}
      /\ ~fx'.raised
      => /\ mon'.last_state_change = now
         /\ fx'.notified = mon.update_callbacks
         /\ fx'.saves = 1 ]_vars

\* ---------------------------------------------------------------- C11
\* C11: a classification (debounced, or the one async_start makes) that
\* leaves the confirmed state as it was, the confirmed state being the state
\* with PENDING_RUNNING read as STANDBY and PENDING_COMPLETED as RUNNING,
\* invokes no observer and creates no save task.
C11_Confirmed(s) ==
  CASE s = STATE_PENDING_RUNNING -> STATE_STANDBY
    [] s = STATE_PENDING_COMPLETED -> STATE_RUNNING
    [] OTHER -> s

C11_Before == IF fx'.op = "start" THEN restored'.state ELSE mon.state

C11_QuietReclassification ==
  [][ /\ fx'.classified = 1
      /\ C11_Confirmed(mon'.state) = C11_Confirmed(C11_Before)
      => fx'.notified = << >> /\ fx'.saves = 0 ]_vars

\* ---------------------------------------------------------------- C12
\* C12: a read of cycles_today on a day other than the stored rollover date
\* returns 0, sets the stored date to today and the stored count to 0; a read
\* on the stored date returns the stored count and changes nothing; no read
\* changes any other field, fires an event or invokes an observer.
C12_LazyRollover ==
  [][ fx'.op = "cycles_today" =>
        /\ IF mon.cycles_today_date # now \div DayLen
             THEN /\ fx'.value = 0
                  /\ mon'.cycles_today = 0
                  /\ mon'.cycles_today_date = now \div DayLen
             ELSE /\ fx'.value = mon.cycles_today
                  /\ mon' = mon
        /\ mon' = [mon EXCEPT !.cycles_today = mon'.cycles_today,
                              !.cycles_today_date = mon'.cycles_today_date]
        /\ fx'.notified = << >> /\ fx'.events = 0 /\ fx'.saves = 0
    ]_vars

\* C12 witness: a count of 1 restored from the snapshot of an earlier day was
\* read as 0 on the next day, no cycle having completed in this run.
C12_Witness ==
  /\ fx.op = "cycles_today"
  /\ fx.value = 0
  /\ restored.cycles_today = 1
  /\ restored.cycles_today_date # now \div DayLen
  /\ mon.cycles_today_date = now \div DayLen
  /\ mon.last_completed = restored.last_completed
  /\ events_fired = 0

\* ---------------------------------------------------------------- C13
\* C13: a power update whose reading is missing, unavailable, unknown or not
\* a number changes nothing of the monitor (current_power, state, the three
\* timers with their deadlines, every other field), classifies nothing,
\* invokes no observer and creates no save task.
C13_DiscardedReading ==
  [][ fx'.op = "power" /\ fx'.value \notin Powers
      => /\ mon' = mon
         /\ fx'.classified = 0
         /\ fx'.notified = << >>
         /\ fx'.saves = 0 ]_vars

\* C13 witness: a reading that is no number has arrived while the debounce
\* timer of a 10 W reading had one tick to go and the start timer was armed.
C13_Witness ==
  /\ fx.op = "power"
  /\ fx.value \notin Powers
  /\ mon.current_power = 10
  /\ mon.debounce_timer = 1
  /\ mon.start_timer # None

\* ---------------------------------------------------------------- C14
\* C14: in a step in which an observer callback raises, every registered
\* observer is invoked all the same and the save task of the transition is
\* created.
C14_ObserverIsolation ==
  [][ fx'.raised /\ fx'.op \in {"debounce", "start_timer", "finish_timer"}
      => /\ fx'.notified = mon.update_callbacks
         /\ fx'.saves = 1 ]_vars

\* ---------------------------------------------------------------- C15
\* C15: async_stop leaves the monitor unsubscribed with the start, finish and
\* debounce timers None and every other field as it was; once stopped, no
\* step changes the state, classifies, invokes an observer or fires a
\* completion event; and a stop of a stopped monitor (whose timers are not
\* armed) changes nothing.
C15_Stop ==
  [][ /\ fx'.op = "stop"
        => /\ ~mon'.unsub_state_change
           /\ mon'.start_timer = None
           /\ mon'.finish_timer = None
           /\ mon'.debounce_timer = None
           /\ mon' = [mon EXCEPT !.unsub_state_change = FALSE,
                                 !.start_timer = None,
                                 !.finish_timer = None,
                                 !.debounce_timer = None]
      /\ phase = "stopped"
        => /\ mon'.state = mon.state
           /\ fx'.classified = 0
           /\ fx'.notified = << >>
           /\ fx'.events = 0
           /\ fx'.op = "stop" => mon' = mon
    ]_vars

\* C15 witness: the monitor was stopped in PENDING_RUNNING while the start
\* timer and a debounce timer were armed, and is still in PENDING_RUNNING
\* after the instant the start timer was due.
C15_Witness ==
  /\ phase = "stopped"
  /\ mon.state = STATE_PENDING_RUNNING
  /\ mon.current_power = 1
  /\ now > mon.last_state_change + mon.start_delay * TicksPerMinute
  /\ mon.start_timer = None

\* ---------------------------------------------------------------- C16
\* C16: a setter changes the parameter it names to the value given and
\* nothing else of the monitor (state, current_power, the time left on the
\* armed timers); the classification after it uses the thresholds as they
\* are then and arms a start or finish timer with the delay as it is then;
\* the power update after it arms the debounce timer with the debounce time
\* as it is then.
C16_Set(m, op, value) ==
  CASE op = "set_standby_threshold" -> [m EXCEPT !.standby_threshold = value]
    [] op = "set_running_threshold" -> [m EXCEPT !.running_threshold = value]
    [] op = "set_start_delay" -> [m EXCEPT !.start_delay = value]
    [] op = "set_finish_delay" -> [m EXCEPT !.finish_delay = value]
    [] op = "set_debounce_time" -> [m EXCEPT !.debounce_time = value]

C16_SetOps ==
  {"set_standby_threshold", "set_running_threshold", "set_start_delay",
   "set_finish_delay", "set_debounce_time"}

C16_SetterFrame ==
  [][ /\ fx'.op \in C16_SetOps
        => /\ mon' = C16_Set(mon, fx'.op, fx'.value)
           /\ fx'.classified = 0 /\ fx'.notified = << >> /\ fx'.saves = 0
      /\ fx'.op = "debounce"
        => StepFollowsTable(BandOf(mon, fx'.power))
      /\ fx'.op = "power" /\ fx'.value \in Powers
        => mon'.debounce_timer = mon.debounce_time
    ]_vars

\* C16 witness: the start delay was set to another value while the start
\* timer, armed with the earlier delay, and a debounce timer were running.
C16_Witness ==
  /\ fx.op = "set_start_delay"
  /\ mon.start_delay = StartDelayMin + 1
  /\ mon.state = STATE_PENDING_RUNNING
  /\ mon.start_timer = 1
  /\ mon.debounce_timer = 1

\* ---------------------------------------------------------------- C17
\* C17: in every reachable state the reported state is OFF, STANDBY, RUNNING
\* or COMPLETED, it is STANDBY for PENDING_RUNNING, RUNNING for
\* PENDING_COMPLETED and the internal state otherwise, and is_running is
\* true exactly when the reported state is RUNNING.
C17_Reported(s) ==
  IF s = STATE_PENDING_RUNNING THEN STATE_STANDBY
  ELSE IF s = STATE_PENDING_COMPLETED THEN STATE_RUNNING
  ELSE s

C17_ReportedState ==
  /\ state(mon) \in {STATE_OFF, STATE_STANDBY, STATE_RUNNING, STATE_COMPLETED}
  /\ state(mon) = C17_Reported(mon.state)
  /\ is_running(mon) <=> state(mon) = STATE_RUNNING

\* C17 witness: in PENDING_COMPLETED the reported state is RUNNING and
\* is_running is true.
C17_Witness ==
  /\ mon.state = STATE_PENDING_COMPLETED
  /\ state(mon) = STATE_RUNNING
  /\ is_running(mon)


\* ---------------------------------------------------------------------
\* SpecResume: the earlier run's monitor is restored and its life goes on
\* over restarts of Home Assistant that happen while a start is pending.
\* A restart finds the snapshot the last save task of the run wrote.
\* ---------------------------------------------------------------------

InitResume ==
  /\ Init
  /\ store = SaveData(EarlierMonitor)

RestartSaved ==
  /\ mon.state = STATE_PENDING_RUNNING
  /\ store = SaveData(mon)
  /\ Restart

\* The power entity reports a number.
PowerUpdateNumber == PowerUpdateOf(Powers)

NextResume ==
  \/ AsyncStart
  \/ PowerUpdateNumber
  \/ DebounceFire
  \/ StartTimerFire
  \/ FinishTimerFire
  \/ Tick
  \/ SaveWrite
  \/ RestartSaved

SpecResume == InitResume /\ [][NextResume]_vars

\* ---------------------------------------------------------------------
\* C18: at every confirmed completion, when a cycle-start timestamp exists
\* the cycle duration becomes the seconds from it to the completion, and
\* that timestamp is the instant the start timer confirmed RUNNING for the
\* cycle that completes; when none exists the cycle duration keeps its
\* value.
\* ---------------------------------------------------------------------

C18_Completion ==
  /\ fx'.op = "finish_timer"
  /\ mon.state = STATE_PENDING_COMPLETED
  /\ mon'.state = STATE_COMPLETED

C18_CycleDuration ==
  [][ C18_Completion =>
        IF mon.last_started # None
          THEN /\ mon'.cycle_duration = now - mon.last_started
               /\ mon.last_started = acc.confirmed
          ELSE mon'.cycle_duration = mon.cycle_duration ]_vars


\* ---------------------------------------------------------------------
\* SpecExample: a new monitor with the default parameters and no energy
\* entity.  The power entity reports 0 W when the monitor starts, then
\* 10 W, held for at least the start delay, then 1 W for good.
\* ---------------------------------------------------------------------

ExampleDebounce == Seconds(DEFAULT_DEBOUNCE_TIME)

ExampleTime ==
  2 * TotalSeconds(DEFAULT_START_DELAY) + TotalSeconds(DEFAULT_FINISH_DELAY)

ExamplePowers == <<0, 10, 1>>

InitExample ==
  /\ mon = NewMonitor(Observers, DEFAULT_START_DELAY, DEFAULT_FINISH_DELAY,
                      ExampleDebounce)
  /\ store = NoSnapshot
  /\ saved = mon
  /\ now = 0
  /\ phase = "created"
  /\ fx = NoFx("init")
  /\ acc = NoAcc
  /\ events_fired = 0
  /\ restored = mon

ExampleStart ==
  /\ phase = "created"
  /\ \E k \in 0..NumObservers :
       LET r == async_start(mon, store, ExamplePowers[1], now, k)
       IN /\ mon' = r.m
          /\ fx' = r.fx
          /\ restored' = r.rm
          /\ acc' = Classified(Accept(r.rm, acc, ExamplePowers[1]))
          /\ phase' = "started"
  /\ UNCHANGED <<now, store, events_fired, saved>>

ExampleUpdate(p) ==
  /\ mon.unsub_state_change
  /\ mon' = _async_power_state_changed(mon, p)
  /\ acc' = Accept(mon, acc, p)
  /\ fx' = [NoFx("power") EXCEPT !.value = p]
  /\ UNCHANGED <<now, store, phase, events_fired, restored, saved>>

ExampleHigh ==
  /\ mon.current_power = ExamplePowers[1]
  /\ ExampleUpdate(ExamplePowers[2])

ExampleLow ==
  /\ mon.current_power = ExamplePowers[2]
  /\ acc.high_age # None
  /\ acc.high_age >= TotalSeconds(mon.start_delay)
  /\ ExampleUpdate(ExamplePowers[3])

ExampleTick ==
  /\ now < ExampleTime
  /\ mon.start_timer # 0 /\ mon.finish_timer # 0 /\ mon.debounce_timer # 0
  /\ now' = now + 1
  /\ mon' = Elapse(mon)
  /\ fx' = NoFx("tick")
  /\ acc' = Aged(mon, acc)
  /\ UNCHANGED <<store, phase, events_fired, restored, saved>>

NextExample ==
  \/ ExampleStart
  \/ ExampleHigh
  \/ ExampleLow
  \/ DebounceFire
  \/ StartTimerFire
  \/ FinishTimerFire
  \/ ExampleTick

SpecExample == InitExample /\ [][NextExample]_vars

\* ---------------------------------------------------------------------
\* C19: the example with the default parameters.  As stated: the cycle
\* that 10 W held for at least 5 min and then 1 W held for at least 2 min
\* complete has cycles_today = 1 and a cycle duration of about 300 s (to
\* within the debounce time).
\* ---------------------------------------------------------------------

C19_Completion ==
  /\ fx'.op = "finish_timer"
  /\ mon.state = STATE_PENDING_COMPLETED
  /\ mon'.state = STATE_COMPLETED

C19_AsStated ==
  [][ C19_Completion =>
        /\ mon'.cycles_today = 1
        /\ mon'.cycle_duration >= Seconds(300) - ExampleDebounce
        /\ mon'.cycle_duration <= Seconds(300) + ExampleDebounce ]_vars

\* C19, as the program runs the example: 0 W leaves the state OFF; once
\* 10 W has been held for longer than the debounce time and the start delay
\* the state is RUNNING, started start delay after the reading was
\* classified; the completion has cycles_today = 1, and its cycle duration
\* is the time from the confirmed start to the classification of 1 W plus
\* the finish delay: at least 120 s, and 300 s only when 10 W stays for a
\* further 3 min after the start was confirmed.
C19_Example ==
  /\ [] ( phase = "started" /\ mon.current_power = ExamplePowers[1]
            => mon.state = STATE_OFF )
  /\ [] ( ( /\ acc.high_age # None
            /\ acc.high_age
                 > mon.debounce_time + TotalSeconds(mon.start_delay) )
            => /\ mon.state = STATE_RUNNING
               /\ mon.last_started # None
               /\ mon.last_started
                    = mon.last_state_change + TotalSeconds(mon.start_delay) )
  /\ [][ C19_Completion =>
           /\ mon'.cycles_today = 1
           /\ mon.last_state_change >= mon.last_started
           /\ mon'.cycle_duration
                = (mon.last_state_change - mon.last_started)
                    + TotalSeconds(mon.finish_delay) ]_vars

C19_Witness ==
  /\ mon.state = STATE_COMPLETED
  /\ mon.current_power = ExamplePowers[3]
  /\ mon.cycles_today = 1
  /\ mon.cycle_duration = mon.debounce_time + TotalSeconds(mon.finish_delay)


\* ---------------------------------------------------------------------
\* C20: energy accounting.  The energy baseline gets a value only when the
\* start timer confirms RUNNING (the value the energy entity then has), or
\* when async_start puts back the baseline the snapshot holds.  At a
\* confirmed completion the cycle energy becomes the reading minus the
\* baseline, rounded to 3 decimals, when the baseline and the reading are
\* both present, and keeps its value otherwise; either way the baseline is
\* cleared, so a monitor in COMPLETED has no baseline.
\* ---------------------------------------------------------------------

C20_Completion ==
  /\ fx'.op = "finish_timer"
  /\ mon.state = STATE_PENDING_COMPLETED
  /\ mon'.state = STATE_COMPLETED

C20_Captured ==
  /\ mon'.energy_at_start # None
  /\ mon'.energy_at_start # mon.energy_at_start

C20_EnergyAccounting ==
  /\ [][ C20_Captured =>
           \/ /\ fx'.op = "start_timer"
              /\ mon.state = STATE_PENDING_RUNNING
              /\ mon'.state = STATE_RUNNING
              /\ mon'.energy_at_start = fx'.value
           \/ /\ fx'.op = "start"
              /\ store.kind = "dict"
              /\ mon'.energy_at_start = store.energy_at_start ]_vars
  /\ [][ C20_Completion =>
           /\ mon'.cycle_energy =
                IF mon.energy_at_start # None /\ fx'.value # None
                  THEN Round3(fx'.value - mon.energy_at_start)
                  ELSE mon.cycle_energy
           /\ mon'.energy_at_start = None ]_vars
  /\ [] ( mon.state = STATE_COMPLETED => mon.energy_at_start = None )

\* A completion that finds a baseline and no reading: the cycle energy of
\* the cycle before stays.
C20_Witness ==
  /\ fx.op = "finish_timer"
  /\ mon.state = STATE_COMPLETED
  /\ fx.value = None
  /\ mon.energy_at_start = None
  /\ mon.cycle_energy # None
  /\ restored.energy_at_start # None


\* ---------------------------------------------------------------------
\* SpecExpiry: the event loop calls a timer callback on a started monitor
\* in any internal state: the timer of a pending state is due, and a
\* callback whose timer is not armed is called late.
\* ---------------------------------------------------------------------

InitExpiry ==
  /\ \E st \in States, ls \in {None, 0}, eas \in {None, 0},
        ct \in 0..1, ee \in BOOLEAN :
       mon = [InitMonitor EXCEPT
                !.state = st,
                !.unsub_state_change = TRUE,
                !.last_state_change = 0,
                !.last_started = ls,
                !.energy_at_start = eas,
                !.cycles_today = ct,
                !.cycles_today_date = IF ct = 0 THEN None ELSE 0,
                !.last_completed = IF ct = 0 THEN None ELSE 0,
                !.cycle_duration = IF ct = 0 THEN None ELSE 0,
                !.energy_entity = ee,
                !.start_timer =
                   IF st = STATE_PENDING_RUNNING THEN 0 ELSE None,
                !.finish_timer =
                   IF st = STATE_PENDING_COMPLETED THEN 0 ELSE None]
  /\ now \in {1, DayLen}
  /\ store = NoSnapshot
  /\ saved = InitMonitor
  /\ phase = "started"
  /\ fx = NoFx("init")
  /\ acc = NoAcc
  /\ events_fired = 0
  /\ restored = InitMonitor

StartExpiry ==
  /\ mon.start_timer \in {None, 0}
  /\ \E e \in EnergyStates(now), k \in 0..NumObservers :
       LET r == _start_timer_callback(mon, now, _read_energy_value(mon, e), k)
       IN /\ mon' = r.m
          /\ fx' = r.fx
  /\ UNCHANGED <<now, store, phase, acc, events_fired, restored, saved>>

FinishExpiry ==
  /\ mon.finish_timer \in {None, 0}
  /\ \E e \in EnergyStates(now), k \in 0..NumObservers :
       LET r == _finish_timer_callback(mon, now, _read_energy_value(mon, e), k)
       IN /\ mon' = r.m
          /\ fx' = r.fx
          /\ events_fired' = events_fired + r.fx.events
  /\ UNCHANGED <<now, store, phase, acc, restored, saved>>

NextExpiry ==
  \/ StartExpiry
  \/ FinishExpiry

SpecExpiry == InitExpiry /\ [][NextExpiry]_vars

\* ---------------------------------------------------------------------
\* C21: a start-timer expiry that finds a state other than PENDING_RUNNING,
\* and a finish-timer expiry that finds a state other than
\* PENDING_COMPLETED, changes neither the state nor the timestamps, the
\* cycle duration, the cycle energy, the energy baseline or cycles_today,
\* notifies no observer, fires no completion event and creates no save.
\* ---------------------------------------------------------------------

C21_Stale ==
  \/ fx'.op = "start_timer" /\ mon.state # STATE_PENDING_RUNNING
  \/ fx'.op = "finish_timer" /\ mon.state # STATE_PENDING_COMPLETED

C21_Lifecycle(m) ==
  << m.state, m.last_state_change, m.last_started, m.last_completed,
     m.cycle_duration, m.cycle_energy, m.energy_at_start, m.cycles_today,
     m.cycles_today_date >>

C21_StaleExpiry ==
  [][ C21_Stale =>
        /\ C21_Lifecycle(mon') = C21_Lifecycle(mon)
        /\ fx'.notified = <<>>
        /\ ~fx'.raised
        /\ fx'.events = 0
        /\ events_fired' = events_fired
        /\ fx'.saves = 0 ]_vars

\* A start-timer callback has run on a monitor in STANDBY, a finish-timer
\* callback on a monitor in OFF.
C21_Witness ==
  \/ fx.op = "start_timer" /\ mon.state = STATE_STANDBY
  \/ fx.op = "finish_timer" /\ mon.state = STATE_OFF


\* ---------------------------------------------------------------------
\* SpecSave: the lifecycle of a new monitor without an energy entity, with
\* the save task each handler creates: the task runs before the next
\* handler or not, and its write succeeds or fails.
\* ---------------------------------------------------------------------

InitSave ==
  /\ Init
  /\ store = NoSnapshot
  /\ ~mon.energy_entity

NextSave ==
  \/ AsyncStart
  \/ PowerUpdateNumber
  \/ DebounceFire
  \/ StartTimerFire
  \/ FinishTimerFire
  \/ Tick
  \/ SaveWrite
  \/ SaveFail

SpecSave == InitSave /\ [][NextSave]_vars

\* ---------------------------------------------------------------------
\* C22: a failed persistence write leaves the monitor (state, fields,
\* timers) as a successful write leaves it, which is as it was, so the
\* transition that created the write stays; and neither a pending nor a
\* failed write holds up a handler: a due timer callback can run and a
\* power update is accepted.
\* ---------------------------------------------------------------------

C22_NotHeldUp ==
  /\ mon.debounce_timer = 0 => ENABLED DebounceFire
  /\ mon.start_timer = 0 => ENABLED StartTimerFire
  /\ mon.finish_timer = 0 => ENABLED FinishTimerFire
  /\ phase = "started" => ENABLED PowerUpdateNumber

C22_FailedWrite ==
  /\ [][ fx'.op = "save_failed" =>
           /\ mon' = _async_save_state(mon, store, TRUE).m
           /\ mon' = mon
           /\ store' = store
           /\ <<now, phase, events_fired>>' = <<now, phase, events_fired>>
       ]_vars
  /\ [] ( fx.saves = 1 \/ fx.op = "save_failed" => C22_NotHeldUp )

\* The write of a completion failed, with the monitor in COMPLETED and
\* nothing stored: the writes before it failed or did not run in time.
C22_Witness ==
  /\ fx.op = "save_failed"
  /\ mon.state = STATE_COMPLETED
  /\ store = NoSnapshot


\* ---------------------------------------------------------------------
\* C23: start ordering.  Until async_start has run the monitor is not
\* subscribed and holds no timer, and every power update and every
\* debounced classification comes after it.  async_start restores the
\* snapshot first; a numeric value of the power entity is then stored and
\* classified at once, with no debounce, against the restored state (a
\* restored RUNNING under a value below the running threshold becomes
\* PENDING_COMPLETED with the full finish delay ahead); with no numeric
\* value nothing is classified and the monitor is as restore left it.
\* ---------------------------------------------------------------------

C23_Seeded ==
  LET row == Table(restored'.state, BandOf(restored', fx'.power))
  IN /\ restored'.state = C8_RestoredAs(store.state)
     /\ mon'.current_power = fx'.power
     /\ mon'.debounce_timer = None
     /\ mon'.state = row.state
     /\ TimerAfter(row.start, None, mon'.start_timer, mon.start_delay)
     /\ TimerAfter(row.finish, None, mon'.finish_timer, mon.finish_delay)
     /\ ( restored'.state = STATE_RUNNING
          /\ fx'.power < mon.running_threshold
            => /\ mon'.state = STATE_PENDING_COMPLETED
               /\ mon'.finish_timer = TotalSeconds(mon.finish_delay) )

C23_StartOrdering ==
  /\ [] ( phase = "created" =>
            /\ ~mon.unsub_state_change
            /\ mon.state = STATE_OFF
            /\ mon.start_timer = None /\ mon.finish_timer = None
            /\ mon.debounce_timer = None )
  /\ [][ fx'.op \in {"power", "debounce"} => phase = "started" ]_vars
  /\ [][ fx'.op = "start" /\ phase' = "started" =>
           /\ restored'.unsub_state_change
           /\ IF fx'.classified = 1
                THEN C23_Seeded
                ELSE mon' = restored' /\ fx'.notified = <<>> ]_vars

\* async_start has restored RUNNING and classified a value below the
\* running threshold.
C23_Witness ==
  /\ fx.op = "start"
  /\ fx.classified = 1
  /\ restored.state = STATE_RUNNING
  /\ fx.power < mon.running_threshold
  /\ mon.state = STATE_PENDING_COMPLETED
  /\ mon.finish_timer = TotalSeconds(mon.finish_delay)


\* ---------------------------------------------------------------------
\* C24: a confirmation timer is armed, with the delay then configured,
\* when its pending state is entered, and while the pending state lasts
\* no step re-arms or extends it: it only counts down with the clock.  So
\* the start timer confirms RUNNING only when it is due and the state has
\* been PENDING_RUNNING since it was armed, a full start delay (as
\* configured at the start or as set since) ago; likewise the finish
\* timer.
\* ---------------------------------------------------------------------

C24_Counts(before, after) ==
  /\ before # None
  /\ after = IF fx'.op = "tick" THEN before - 1 ELSE before

C24_StartDelays ==
  {TotalSeconds(d) : d \in {InitMonitor.start_delay, mon.start_delay}}

C24_FinishDelays ==
  {TotalSeconds(d) : d \in {InitMonitor.finish_delay, mon.finish_delay}}

C24_NoReArm ==
  /\ [][ mon.state # STATE_PENDING_RUNNING
         /\ mon'.state = STATE_PENDING_RUNNING
           => /\ mon'.start_timer = TotalSeconds(mon'.start_delay)
              /\ mon'.last_state_change = now ]_vars
  /\ [][ mon.state # STATE_PENDING_COMPLETED
         /\ mon'.state = STATE_PENDING_COMPLETED
           => /\ mon'.finish_timer = TotalSeconds(mon'.finish_delay)
              /\ mon'.last_state_change = now ]_vars
  /\ [][ mon.state = STATE_PENDING_RUNNING
         /\ mon'.state = STATE_PENDING_RUNNING
           => /\ C24_Counts(mon.start_timer, mon'.start_timer)
              /\ mon'.last_state_change = mon.last_state_change ]_vars
  /\ [][ mon.state = STATE_PENDING_COMPLETED
         /\ mon'.state = STATE_PENDING_COMPLETED
           => /\ C24_Counts(mon.finish_timer, mon'.finish_timer)
              /\ mon'.last_state_change = mon.last_state_change ]_vars
  /\ [][ fx'.op = "start_timer" /\ mon'.state # mon.state
           => /\ mon.state = STATE_PENDING_RUNNING
              /\ mon.start_timer = 0
              /\ now - mon.last_state_change \in C24_StartDelays ]_vars
  /\ [][ fx'.op = "finish_timer" /\ mon'.state # mon.state
           => /\ mon.state = STATE_PENDING_COMPLETED
              /\ mon.finish_timer = 0
              /\ now - mon.last_state_change \in C24_FinishDelays ]_vars

\* A reading in band running was classified in PENDING_RUNNING with the
\* start timer under way.
C24_Witness ==
  /\ fx.op = "debounce"
  /\ fx.classified = 1
  /\ fx.power >= mon.running_threshold
  /\ fx.notified = <<>>
  /\ mon.state = STATE_PENDING_RUNNING
  /\ mon.start_timer # None
  /\ mon.start_timer < TotalSeconds(mon.start_delay)
  /\ mon.start_delay = InitMonitor.start_delay


\* ---------------------------------------------------------------------
\* C25: no step skips a pending state.  Apart from the restore of
\* async_start, the state becomes RUNNING only from PENDING_RUNNING, by
\* the start timer, or from PENDING_COMPLETED, by a classification that
\* cancels the finish timer; it becomes COMPLETED only from
\* PENDING_COMPLETED, by the finish timer; RUNNING and PENDING_COMPLETED
\* never move to OFF or STANDBY; and when a completion event is fired, the
\* start timer has confirmed RUNNING for the cycle.
\* ---------------------------------------------------------------------

\* The state a step leaves: for async_start, the state restore put in place.
C25_From == IF fx'.op = "start" THEN restored'.state ELSE mon.state

C26_TimerIffPending ==
  phase = "started" =>
    /\ mon.start_timer # None <=> mon.state = STATE_PENDING_RUNNING
    /\ mon.finish_timer # None <=> mon.state = STATE_PENDING_COMPLETED

C26_Witness ==
  /\ phase = "started"
  /\ mon.state = STATE_PENDING_COMPLETED
  /\ mon.finish_timer # None
  /\ mon.start_timer = None
  /\ mon.finish_timer < TotalSeconds(mon.finish_delay)


\* ---------------------------------------------------------------------
\* C27: in every state of a started monitor whose internal state is
\* RUNNING or PENDING_COMPLETED, also after the restore of a snapshot the
\* program wrote, last_started is set and is the instant at which the
\* start timer confirmed the cycle under way.
\* ---------------------------------------------------------------------

C27_CycleStartKnown ==
  phase = "started"
  /\ mon.state \in {STATE_RUNNING, STATE_PENDING_COMPLETED}
    => /\ mon.last_started # None
       /\ mon.last_started = acc.confirmed


\* ---------------------------------------------------------------------
\* C28: with the thresholds fixed, when the start timer confirms RUNNING
\* the stored current power is >= the running threshold, and when the
\* finish timer confirms COMPLETED it is < the running threshold.  (Stated
\* for the confirmations at which no debounced classification is due at
\* the same instant.)
\* ---------------------------------------------------------------------

C28_ConfirmAgreesWithReading ==
  /\ [][ ( /\ fx'.op = "start_timer"
           /\ mon.state = STATE_PENDING_RUNNING
           /\ mon'.state = STATE_RUNNING
           /\ mon.debounce_timer # 0 )
           => mon.current_power >= mon.running_threshold ]_vars
  /\ [][ ( /\ fx'.op = "finish_timer"
           /\ mon.state = STATE_PENDING_COMPLETED
           /\ mon'.state = STATE_COMPLETED
           /\ mon.debounce_timer # 0 )
           => mon.current_power < mon.running_threshold ]_vars


\* ---------------------------------------------------------------------
\* SpecSettle: a new monitor without an energy entity.  The power entity
\* changes state up to MaxTime and not after; the clock stops counting at
\* MaxTime; the event loop runs a due callback and time passes (weak
\* fairness).  The parameters stay as configured and the monitor is not
\* stopped.
\* ---------------------------------------------------------------------

PowerUpdateEarly ==
  /\ now < MaxTime
  /\ PowerUpdate

InitSettle ==
  /\ Init
  /\ store = NoSnapshot
  /\ ~mon.energy_entity

NextSettle ==
  \/ AsyncStart
  \/ PowerUpdateEarly
  \/ DebounceFire
  \/ StartTimerFire
  \/ FinishTimerFire
  \/ TickLive

SpecSettle ==
  /\ InitSettle
  /\ [][NextSettle]_vars
  /\ WF_vars(DebounceFire)
  /\ WF_vars(StartTimerFire)
  /\ WF_vars(FinishTimerFire)
  /\ WF_vars(TickLive)

\* ---------------------------------------------------------------------
\* C29: the debounced classification runs a debounce time after the
\* latest accepted update, with its value; and once the updates have
\* ceased the monitor settles for good with no timer armed, in RUNNING
\* when the last reading is in band running, in OFF or COMPLETED when it
\* is in band off, in STANDBY or COMPLETED when it is in band standby.
\* ---------------------------------------------------------------------

C29_Settled ==
  LET b == BandOf(mon, mon.current_power)
  IN /\ mon.debounce_timer = None
     /\ mon.start_timer = None
     /\ mon.finish_timer = None
     /\ b = "running" => mon.state = STATE_RUNNING
     /\ b = "off" => mon.state \in {STATE_OFF, STATE_COMPLETED}
     /\ b = "standby" => mon.state \in {STATE_STANDBY, STATE_COMPLETED}

C29_Convergence ==
  /\ [][ fx'.op = "debounce" =>
           /\ fx'.classified = 1
           /\ fx'.power = mon.current_power
           /\ fx'.power = acc.power
           /\ acc.age = acc.debounce ]_vars
  /\ <>[] C29_Settled

\* The updates have ceased with a last reading in band off, and the cycle
\* it ended is completed: no timer is armed.
C29_Witness ==
  /\ now = MaxTime
  /\ C29_Settled
  /\ mon.current_power < mon.standby_threshold
  /\ mon.state = STATE_COMPLETED
  /\ mon.last_completed = MaxTime

====
